---------------------------- MODULE Spec2Model ----------------------------
(***************************************************************************)
(* Vehicle rental: the booking endpoint POST /api/bookings of              *)
(* backend/server.js and the bookings table it writes.                     *)
(*                                                                         *)
(* A calendar date (a 'YYYY-MM-DD' string of the request body, a DATE      *)
(* column of the table) is a day number 1..MaxDay; 0 stands for a date     *)
(* field that is absent from the body.  A vehicle id is a number, 0 for    *)
(* an absent one; a name is a string, "" for an absent or empty one.       *)
(* These are exactly the values JavaScript's ! operator treats as falsy.   *)
(*                                                                         *)
(* The second part is the booking wizard of frontend/src/app.jsx.  The     *)
(* file holds two variants of it: variant A (lines 1-1242) and variant B   *)
(* (lines 1244-1874).  They share the draft, the reducer, the validators   *)
(* and the simulated vehicle load; they differ in the navigation handlers  *)
(* (A delays its step update by a 300 ms timer and writes the step value   *)
(* its closure captured, B updates the step at once from the current       *)
(* value), in the date pickers and in what a successful submit records.    *)
(* The wizard never calls the endpoint: its submit is a 2000 ms timer      *)
(* followed by a random outcome.  Pending setTimeout callbacks are kept in *)
(* one queue, in the order they were scheduled; a callback may run only    *)
(* when nothing scheduled before it has a delay as short as its own.       *)
(* isAnimatingOut is left out: it is read by a CSS class name only.  The   *)
(* 300 ms exit animation of variant B's AnimatePresence is left out too:   *)
(* the controls of the step the wizard is on are there at once, and those  *)
(* of the step being left are gone at once.                                *)
(***************************************************************************)
EXTENDS Integers, FiniteSets, Sequences, Bags, TLC

\* Days of the calendar the requests may name.
MaxDay == 3

\* Rows of the vehicles table (seed.sql inserts 12; ids are 1..NumVehicles).
NumVehicles == 2

\* The clients that post concurrently, one request each.
Clients == {"c1", "c2"}

Days == 1..MaxDay

Vehicles == 1..NumVehicles

\* Request bodies: any field may be absent, and vehicleId may name a vehicle
\* the vehicles table does not hold (NumVehicles + 1).
Bodies ==
    [firstName : {"", "Asha"},
     lastName  : {"", "Rao"},
     vehicleId : 0..(NumVehicles + 1),
     startDate : 0..MaxDay,
     endDate   : 0..MaxDay]

NoBody == [firstName |-> "", lastName |-> "", vehicleId |-> 0,
           startDate |-> 0, endDate |-> 0]

VARIABLES
    bookings,          \* the bookings table: a set of rows
    nextId,            \* the table's AUTO_INCREMENT counter
    pc,                \* per client: where its request handler stands
    req,               \* per client: req.body
    existingBookings,  \* per client: the rows Booking.findAll returned
    res,               \* per client: the response sent (status 0: none yet)
    today,             \* the current calendar day (the server never reads it)
    variant,           \* which wizard of app.jsx is mounted: "A", "B" or "none"
    formState,         \* the wizard's draft (useReducer)
    currentStep,       \* the wizard's step, 0 (Details) .. 6 (Success)
    isLoading,         \* the flag shared by the vehicle load and the submit
    vehicles,          \* ids of the vehicles offered on the Model step
    allVehicles,       \* the cache: how many entries it has of each vehicle id
    bookingError,      \* "" for null, else the message shown on Review
    savedBookings,     \* the length of variant A's booking history
    timers             \* pending setTimeout callbacks, in scheduling order

serverVars == <<bookings, nextId, pc, req, existingBookings, res, today>>

wizardVars == <<variant, formState, currentStep, isLoading, vehicles,
                allVehicles, bookingError, savedBookings, timers>>

vars == <<bookings, nextId, pc, req, existingBookings, res, today,
          variant, formState, currentStep, isLoading, vehicles,
          allVehicles, bookingError, savedBookings, timers>>

NoResponse == [status |-> 0, booking |-> {}]

\* Mutant of Between: the bounds taken as exclusive.
BetweenExclusive(x, lo, hi) == lo < x /\ x < hi

\* SQL's  x BETWEEN lo AND hi
Between(x, lo, hi) == lo <= x /\ x <= hi

\* Mutant of RequiredFieldsMissing: endDate is not checked.
RequiredFieldsMissingButEndDate(body) ==
    \/ body.firstName = ""
    \/ body.lastName = ""
    \/ body.vehicleId = 0
    \/ body.startDate = 0

\* if (!firstName || !lastName || !vehicleId || !startDate || !endDate)
RequiredFieldsMissing(body) ==
    \/ body.firstName = ""
    \/ body.lastName = ""
    \/ body.vehicleId = 0
    \/ body.startDate = 0
    \/ body.endDate = 0

\* Mutant of ConflictWhere: Case 1 (existing start within the new range) is
\* left out.
ConflictWhereNoCase1(b, vehicleId, startDate, endDate) ==
    /\ b.vehicle_id = vehicleId
    /\ \/ Between(b.end_date, startDate, endDate)
       \/ (b.start_date <= startDate /\ b.end_date >= endDate)
       \/ (b.start_date >= startDate /\ b.end_date <= endDate)

\* Mutant of ConflictWhere: Case 3 (new range contained in an existing
\* booking) is left out.
ConflictWhereNoCase3(b, vehicleId, startDate, endDate) ==
    /\ b.vehicle_id = vehicleId
    /\ \/ Between(b.start_date, startDate, endDate)
       \/ Between(b.end_date, startDate, endDate)
       \/ (b.start_date >= startDate /\ b.end_date <= endDate)

\* Mutant of ConflictWhere: the vehicle_id condition is left out.
ConflictWhereAnyVehicle(b, vehicleId, startDate, endDate) ==
    \/ Between(b.start_date, startDate, endDate)
    \/ Between(b.end_date, startDate, endDate)
    \/ (b.start_date <= startDate /\ b.end_date >= endDate)
    \/ (b.start_date >= startDate /\ b.end_date <= endDate)

\* The where clause of the overlap query, applied to one row b.
ConflictWhere(b, vehicleId, startDate, endDate) ==
    /\ b.vehicle_id = vehicleId
    /\ \/ Between(b.start_date, startDate, endDate)
       \/ Between(b.end_date, startDate, endDate)
       \/ (b.start_date <= startDate /\ b.end_date >= endDate)
       \/ (b.start_date >= startDate /\ b.end_date <= endDate)

\* Booking.findAll({ where: ... }) against the table as it is now.
FindAllResult(table, body) ==
    {b \in table : ConflictWhere(b, body.vehicleId, body.startDate, body.endDate)}

\* Mutant of NewBookingRow: start_date and end_date take each other's value.
NewBookingRowDatesSwapped(id, body) ==
    [id         |-> id,
     first_name |-> body.firstName,
     last_name  |-> body.lastName,
     vehicle_id |-> body.vehicleId,
     start_date |-> body.endDate,
     end_date   |-> body.startDate]

\* The row Booking.create inserts.
NewBookingRow(id, body) ==
    [id         |-> id,
     first_name |-> body.firstName,
     last_name  |-> body.lastName,
     vehicle_id |-> body.vehicleId,
     start_date |-> body.startDate,
     end_date   |-> body.endDate]

\* FOREIGN KEY (vehicle_id) REFERENCES vehicles(id)
ForeignKeyHolds(body) == body.vehicleId \in Vehicles

\* The empty draft: '' is <<>> for a name and 0 for a selection or a date
\* string, null is 0 for a date object, {} is no error.
initialState ==
    [firstName     |-> <<>>,
     lastName      |-> <<>>,
     wheels        |-> 0,
     vehicleType   |-> 0,
     specificModel |-> 0,
     startDate     |-> 0,
     endDate       |-> 0,
     startDateObj  |-> 0,
     endDateObj    |-> 0,
     errors        |-> {}]

Init ==
    /\ bookings = {}
    /\ nextId = 1
    /\ pc = [c \in Clients |-> "idle"]
    /\ req = [c \in Clients |-> NoBody]
    /\ existingBookings = [c \in Clients |-> {}]
    /\ res = [c \in Clients |-> NoResponse]
    /\ today = 2
    /\ variant = "none"
    /\ formState = initialState
    /\ currentStep = 0
    /\ isLoading = FALSE
    /\ vehicles = {}
    /\ allVehicles = EmptyBag
    /\ bookingError = ""
    /\ savedBookings = 0
    /\ timers = <<>>

\* The handler up to its first await: the body is destructured and the
\* required fields are checked; a missing one ends the request with 400.
PostBookings(c) ==
    /\ pc[c] = "idle"
    /\ \E body \in Bodies :
        /\ req' = [req EXCEPT ![c] = body]
        /\ IF RequiredFieldsMissing(body)
           THEN /\ res' = [res EXCEPT ![c] = [status |-> 400, booking |-> {}]]
                /\ pc' = [pc EXCEPT ![c] = "done"]
           ELSE /\ res' = res
                /\ pc' = [pc EXCEPT ![c] = "findAll"]
    /\ UNCHANGED <<bookings, nextId, existingBookings, today>>
    /\ UNCHANGED wizardVars

\* Mutant of FindAll: 409 only when more than one row was found.
FindAllOffByOne(c) ==
    /\ pc[c] = "findAll"
    /\ LET found == FindAllResult(bookings, req[c]) IN
        /\ existingBookings' = [existingBookings EXCEPT ![c] = found]
        /\ IF Cardinality(found) > 1
           THEN /\ res' = [res EXCEPT ![c] = [status |-> 409, booking |-> {}]]
                /\ pc' = [pc EXCEPT ![c] = "done"]
           ELSE /\ res' = res
                /\ pc' = [pc EXCEPT ![c] = "create"]
    /\ UNCHANGED <<bookings, nextId, req, today>>
    /\ UNCHANGED wizardVars

\* await Booking.findAll(...) completes: the query reads the table, and the
\* handler answers 409 when it returned any row, else goes on to create.
FindAll(c) ==
    /\ pc[c] = "findAll"
    /\ LET found == FindAllResult(bookings, req[c]) IN
        /\ existingBookings' = [existingBookings EXCEPT ![c] = found]
        /\ IF Cardinality(found) > 0
           THEN /\ res' = [res EXCEPT ![c] = [status |-> 409, booking |-> {}]]
                /\ pc' = [pc EXCEPT ![c] = "done"]
           ELSE /\ res' = res
                /\ pc' = [pc EXCEPT ![c] = "create"]
    /\ UNCHANGED <<bookings, nextId, req, today>>
    /\ UNCHANGED wizardVars

\* await Booking.create(...) completes: the row is inserted with the next
\* id and returned with 201.
Create(c) ==
    /\ pc[c] = "create"
    /\ ForeignKeyHolds(req[c])
    /\ LET newBooking == NewBookingRow(nextId, req[c]) IN
        /\ bookings' = bookings \cup {newBooking}
        /\ nextId' = nextId + 1
        /\ res' = [res EXCEPT ![c] = [status |-> 201, booking |-> {newBooking}]]
    /\ pc' = [pc EXCEPT ![c] = "done"]
    /\ UNCHANGED <<req, existingBookings, today>>
    /\ UNCHANGED wizardVars

\* Booking.create throws (the vehicle_id names no vehicle): the catch block
\* answers 500 and nothing is inserted.
CreateRejected(c) ==
    /\ pc[c] = "create"
    /\ ~ForeignKeyHolds(req[c])
    /\ res' = [res EXCEPT ![c] = [status |-> 500, booking |-> {}]]
    /\ pc' = [pc EXCEPT ![c] = "done"]
    /\ UNCHANGED <<bookings, nextId, req, existingBookings, today>>
    /\ UNCHANGED wizardVars

Next ==
    \E c \in Clients :
        \/ PostBookings(c)
        \/ FindAll(c)
        \/ Create(c)
        \/ CreateRejected(c)

Spec == Init /\ [][Next]_vars

-----------------------------------------------------------------------------
(***************************************************************************)
(* The booking wizard: frontend/src/app.jsx.                               *)
(***************************************************************************)

\* Categories of VEHICLE_TYPES_DATA taken along: ids 1..NumVehicleTypes of
\* its four.
NumVehicleTypes == 2

\* Vehicles of each category taken along (VEHICLES_DATA has three of each).
ModelsPerType == 1

\* Pending setTimeout callbacks at one time.
MaxTimers == 2

\* Bookings in variant A's history, those of pending submits included.
MaxSaved == 1

\* Vehicles listed per category in VEHICLES_DATA.
VehiclesPerTypeInData == 3

\* The delays handed to setTimeout, in milliseconds.
NavDelay == 300

LoadDelay == 800

SubmitDelay == 2000

\* slice(0, 4): the history entries kept behind a new one.
HistoryKept == 4

\* The index of the Success step: allSteps.length - 1.
LastStep == 6

\* wheels of the categories with ids 1..4 (Hatchback, SUV, Sedan, Cruiser).
WheelsOfType == <<4, 4, 4, 2>>

VEHICLE_TYPES_DATA ==
    {[id |-> id, wheels |-> WheelsOfType[id]] : id \in 1..NumVehicleTypes}

\* price_per_day of the vehicles with ids 1..12.
PricePerDay ==
    <<1500, 1200, 1400, 2500, 2800, 2200, 2000, 1900, 1800, 800, 700, 900>>

VEHICLES_DATA ==
    {[id |-> VehiclesPerTypeInData * (t.id - 1) + k,
      type_id |-> t.id,
      price_per_day |-> PricePerDay[VehiclesPerTypeInData * (t.id - 1) + k]] :
        t \in VEHICLE_TYPES_DATA, k \in 1..ModelsPerType}

\* What the user may type into a name field.
NameInputs == {<<>>, <<"A", "l">>}

\* String.prototype.trim
RECURSIVE trim(_)
trim(s) ==
    IF s = <<>> THEN s
    ELSE IF Head(s) = " " THEN trim(Tail(s))
    ELSE IF s[Len(s)] = " " THEN trim(SubSeq(s, 1, Len(s) - 1))
    ELSE s

\* formReducer (variant A) and bookingFormReducer (variant B): the same
\* cases; B's default case throws and no dispatch of the file reaches it.
formReducer(state, action) ==
    CASE action.type = "UPDATE_FIELD" ->
            [state EXCEPT ![action.field] = action.value]
      [] action.type = "UPDATE_MULTIPLE" ->
            [f \in DOMAIN state |->
                IF f \in DOMAIN action.payload THEN action.payload[f]
                                               ELSE state[f]]
      [] action.type = "RESET_FORM" -> action.payload
      [] action.type = "SET_ERRORS" -> [state EXCEPT !.errors = action.payload]
      [] action.type = "CLEAR_ERRORS" -> [state EXCEPT !.errors = {}]
      [] OTHER -> state

\* A comparison that lets the same day through.
isSameOrAfter(a, b) == a >= b

\* dayjs(a).isAfter(dayjs(b)) on two calendar days.
isAfter(a, b) == a > b

\* dayjs(a).isBefore(dayjs(b)) on two calendar days.
isBefore(a, b) == a < b

\* validateStep: the keys of newErrors for the step and the draft it reads.
\* Both variants test the same conditions (their messages differ).
validateStep(step, fs) ==
    CASE step = 0 ->
            (IF trim(fs.firstName) = <<>> \/ Len(fs.firstName) < 2
             THEN {"firstName"} ELSE {})
            \cup (IF trim(fs.lastName) = <<>> \/ Len(fs.lastName) < 2
                  THEN {"lastName"} ELSE {})
      [] step = 1 -> IF fs.wheels = 0 THEN {"wheels"} ELSE {}
      [] step = 2 -> IF fs.vehicleType = 0 THEN {"vehicleType"} ELSE {}
      [] step = 3 -> IF fs.specificModel = 0 THEN {"specificModel"} ELSE {}
      [] step = 4 ->
            (IF fs.startDate = 0 THEN {"startDate"} ELSE {})
            \cup (IF fs.endDate = 0 THEN {"endDate"} ELSE {})
            \cup (IF fs.startDate # 0 /\ fs.endDate # 0
                     /\ isAfter(fs.startDate, fs.endDate)
                  THEN {"dateRange"} ELSE {})
      [] OTHER -> {}

\* A pending callback: the delayed step update of variant A's handleNext and
\* handlePrev (step: the value it will write), the vehicle load (vehicleType:
\* the category its closure captured), or the continuation of handleSubmit
\* behind its await (step: the step its handleNext captured).
NavTimer(step) == [kind |-> "nav", step |-> step, vehicleType |-> 0]

LoadTimer(vehicleType) ==
    [kind |-> "load", step |-> 0, vehicleType |-> vehicleType]

SubmitTimer(step) == [kind |-> "submit", step |-> step, vehicleType |-> 0]

Delay(kind) ==
    CASE kind = "nav" -> NavDelay
      [] kind = "load" -> LoadDelay
      [] kind = "submit" -> SubmitDelay

\* Timers that run in any order, whatever their delays.
CanFireInAnyOrder(i) == i \in 1..Len(timers)

\* Callback i may run now: every callback scheduled before it waits longer
\* than i does, so none of them is due first.
CanFire(i) ==
    /\ i \in 1..Len(timers)
    /\ \A j \in 1..(i - 1) : Delay(timers[j].kind) > Delay(timers[i].kind)

Remove(seq, i) == SubSeq(seq, 1, i - 1) \o SubSeq(seq, i + 1, Len(seq))

PendingSubmits == {i \in 1..Len(timers) : timers[i].kind = "submit"}

\* Variant B reads allSteps[currentStep].title while rendering: past the last
\* step that throws, and the error boundary unmounts the wizard.
Crashed == variant = "B" /\ currentStep > LastStep

\* VEHICLES_DATA.filter(v => v.type_id == vehicleType), as ids.
filteredVehicles(vehicleType) ==
    {v.id : v \in {w \in VEHICLES_DATA : w.type_id = vehicleType}}

\* A cache that gets every loaded vehicle pushed onto it.
mergeVehiclesPushesAll(prev, ids) == prev (+) SetToBag(ids)

\* setAllVehicles(prev => ...): the loaded vehicles join the cache.  A
\* pushes the vehicles whose id it does not find in prev; B puts prev and
\* the loaded vehicles into a Map keyed by id and takes its values.
mergeVehicles(prev, ids) ==
    IF variant = "A"
    THEN prev (+) SetToBag(ids \ BagToSet(prev))
    ELSE SetToBag(BagToSet(prev) \cup ids)

\* The entry of VEHICLES_DATA with an id: three vehicles to a category, in
\* the order of the categories.
VehicleOfData(id) ==
    [id |-> id,
     type_id |-> ((id - 1) \div VehiclesPerTypeInData) + 1,
     price_per_day |-> PricePerDay[id]]

\* getVehicleInfo(id): the cached vehicle that find meets first with that
\* id, if there is one.
getVehicleInfo(id) ==
    {v \in {VehicleOfData(i) : i \in 1..Len(PricePerDay)} :
        v.id = id /\ BagIn(v.id, allVehicles)}

\* A day count that leaves the last day out.
rentalDaysExclusive(fs) ==
    IF fs.startDateObj # 0 /\ fs.endDateObj # 0
       /\ isAfter(fs.endDateObj, fs.startDateObj)
    THEN fs.endDateObj - fs.startDateObj
    ELSE 0

\* rentalDays of allSteps: diff(start, 'day') + 1 when the end is after the
\* start by the day, 0 otherwise.
rentalDays(fs) ==
    IF fs.startDateObj # 0 /\ fs.endDateObj # 0
       /\ isAfter(fs.endDateObj, fs.startDateObj)
    THEN (fs.endDateObj - fs.startDateObj) + 1
    ELSE 0

\* A total that is the price of one day.
totalPriceOfOneDay(fs) ==
    LET selectedVehicle == getVehicleInfo(fs.specificModel) IN
    IF selectedVehicle # {} /\ rentalDays(fs) > 0
    THEN (CHOOSE v \in selectedVehicle : TRUE).price_per_day
    ELSE 0

\* totalPrice of allSteps: price_per_day * rentalDays of the vehicle that
\* getVehicleInfo finds, 0 without a vehicle or without days.
totalPrice(fs) ==
    LET selectedVehicle == getVehicleInfo(fs.specificModel) IN
    IF selectedVehicle # {} /\ rentalDays(fs) > 0
    THEN (CHOOSE v \in selectedVehicle : TRUE).price_per_day * rentalDays(fs)
    ELSE 0

WizardInit ==
    /\ bookings = {}
    /\ nextId = 1
    /\ pc = [c \in Clients |-> "idle"]
    /\ req = [c \in Clients |-> NoBody]
    /\ existingBookings = [c \in Clients |-> {}]
    /\ res = [c \in Clients |-> NoResponse]
    /\ today = 1
    /\ variant \in {"A", "B"}
    /\ formState = initialState
    /\ currentStep = 0
    /\ isLoading = FALSE
    /\ vehicles = {}
    /\ allVehicles = EmptyBag
    /\ bookingError = ""
    /\ savedBookings = 0
    /\ timers = <<>>

\* Details step: a name field's onChange.
EditName(field, value) ==
    /\ variant \in {"A", "B"}
    /\ currentStep = 0
    /\ formState' = formReducer(formState,
            [type |-> "UPDATE_FIELD", field |-> field, value |-> value])
    /\ UNCHANGED <<currentStep, isLoading, vehicles, allVehicles,
                   bookingError, savedBookings, timers, variant>>
    /\ UNCHANGED serverVars

\* A wheel card whose payload leaves specificModel out.
ChooseWheelsKeepsModel(w) ==
    /\ variant \in {"A", "B"}
    /\ currentStep = 1
    /\ formState' = formReducer(formState,
            [type |-> "UPDATE_MULTIPLE",
             payload |-> [wheels |-> w, vehicleType |-> 0]])
    /\ UNCHANGED <<currentStep, isLoading, vehicles, allVehicles,
                   bookingError, savedBookings, timers, variant>>
    /\ UNCHANGED serverVars

\* Wheels step: a card's onClick.  vehicleType becomes '', so the load
\* effect runs and does nothing.
ChooseWheels(w) ==
    /\ variant \in {"A", "B"}
    /\ currentStep = 1
    /\ formState' = formReducer(formState,
            [type |-> "UPDATE_MULTIPLE",
             payload |-> [wheels |-> w, vehicleType |-> 0, specificModel |-> 0]])
    /\ UNCHANGED <<currentStep, isLoading, vehicles, allVehicles,
                   bookingError, savedBookings, timers, variant>>
    /\ UNCHANGED serverVars

\* A category card whose payload leaves specificModel out.
ChooseCategoryKeepsModel(type) ==
    /\ variant \in {"A", "B"}
    /\ currentStep = 2
    /\ type.wheels = formState.wheels
    /\ formState' = formReducer(formState,
            [type |-> "UPDATE_FIELD", field |-> "vehicleType",
             value |-> type.id])
    /\ IF type.id # formState.vehicleType
       THEN /\ Len(timers) < MaxTimers
            /\ isLoading' = TRUE
            /\ timers' = Append(timers, LoadTimer(type.id))
       ELSE UNCHANGED <<isLoading, timers>>
    /\ UNCHANGED <<currentStep, vehicles, allVehicles, bookingError,
                   savedBookings, variant>>
    /\ UNCHANGED serverVars

\* Category step: the onClick of a card of the draft's wheel class, and the
\* load effect that follows it when formState.vehicleType has changed:
\* isLoading is set and the load is scheduled.
ChooseCategory(type) ==
    /\ variant \in {"A", "B"}
    /\ currentStep = 2
    /\ type.wheels = formState.wheels
    /\ formState' = formReducer(formState,
            [type |-> "UPDATE_MULTIPLE",
             payload |-> [vehicleType |-> type.id, specificModel |-> 0]])
    /\ IF type.id # formState.vehicleType
       THEN /\ Len(timers) < MaxTimers
            /\ isLoading' = TRUE
            /\ timers' = Append(timers, LoadTimer(type.id))
       ELSE UNCHANGED <<isLoading, timers>>
    /\ UNCHANGED <<currentStep, vehicles, allVehicles, bookingError,
                   savedBookings, variant>>
    /\ UNCHANGED serverVars

\* The load's callback: the vehicles of the category it captured are offered
\* and cached, and isLoading is cleared.
LoadTimeout(i) ==
    /\ CanFire(i)
    /\ timers[i].kind = "load"
    /\ ~Crashed
    /\ vehicles' = filteredVehicles(timers[i].vehicleType)
    /\ allVehicles' = mergeVehicles(allVehicles,
                                    filteredVehicles(timers[i].vehicleType))
    /\ isLoading' = FALSE
    /\ timers' = Remove(timers, i)
    /\ UNCHANGED <<formState, currentStep, bookingError, savedBookings, variant>>
    /\ UNCHANGED serverVars

\* A model card that also moves the wizard on.
ChooseModelAdvances(id) ==
    /\ variant \in {"A", "B"}
    /\ currentStep = 3
    /\ ~isLoading
    /\ id \in vehicles
    /\ formState' = formReducer(formState,
            [type |-> "UPDATE_FIELD", field |-> "specificModel", value |-> id])
    /\ currentStep' = currentStep + 1
    /\ UNCHANGED <<isLoading, vehicles, allVehicles,
                   bookingError, savedBookings, timers, variant>>
    /\ UNCHANGED serverVars

\* Model step: the onClick of an offered vehicle's card (the cards are
\* rendered while isLoading is false).
ChooseModel(id) ==
    /\ variant \in {"A", "B"}
    /\ currentStep = 3
    /\ ~isLoading
    /\ id \in vehicles
    /\ formState' = formReducer(formState,
            [type |-> "UPDATE_FIELD", field |-> "specificModel", value |-> id])
    /\ UNCHANGED <<currentStep, isLoading, vehicles, allVehicles,
                   bookingError, savedBookings, timers, variant>>
    /\ UNCHANGED serverVars

\* A Start Date picker that leaves the end date as it is.
ChangeStartDateKeepsEnd(newValue) ==
    /\ variant = "A"
    /\ currentStep = 4
    /\ newValue >= today
    /\ formState' = formReducer(formState,
            [type |-> "UPDATE_MULTIPLE",
             payload |-> [startDateObj |-> newValue, startDate |-> newValue]])
    /\ UNCHANGED <<currentStep, isLoading, vehicles, allVehicles,
                   bookingError, savedBookings, timers, variant>>
    /\ UNCHANGED serverVars

\* Dates step, variant A: the Start Date picker's onChange with a day of the
\* calendar (minDate: today).  The end date is cleared when it is before the
\* new start.
ChangeStartDateA(newValue) ==
    /\ variant = "A"
    /\ currentStep = 4
    /\ newValue >= today
    /\ LET clear == formState.endDateObj # 0
                    /\ isBefore(formState.endDateObj, newValue) IN
       formState' = formReducer(formState,
            [type |-> "UPDATE_MULTIPLE",
             payload |-> [startDateObj |-> newValue,
                          startDate    |-> newValue,
                          endDateObj   |-> IF clear THEN 0 ELSE formState.endDateObj,
                          endDate      |-> IF clear THEN 0 ELSE formState.endDate]])
    /\ UNCHANGED <<currentStep, isLoading, vehicles, allVehicles,
                   bookingError, savedBookings, timers, variant>>
    /\ UNCHANGED serverVars

\* Dates step, variant B: the Start Date picker's onChange; the end date is
\* left as it is.
ChangeStartDateB(val) ==
    /\ variant = "B"
    /\ currentStep = 4
    /\ val >= today
    /\ formState' = formReducer(formState,
            [type |-> "UPDATE_MULTIPLE",
             payload |-> [startDateObj |-> val, startDate |-> val]])
    /\ UNCHANGED <<currentStep, isLoading, vehicles, allVehicles,
                   bookingError, savedBookings, timers, variant>>
    /\ UNCHANGED serverVars

\* Dates step: the End Date picker's onChange; the picker is disabled
\* without a start date, and its minDate is the day after the start.
ChangeEndDate(newValue) ==
    /\ variant \in {"A", "B"}
    /\ currentStep = 4
    /\ formState.startDateObj # 0
    /\ newValue >= formState.startDateObj + 1
    /\ formState' = formReducer(formState,
            [type |-> "UPDATE_MULTIPLE",
             payload |-> [endDateObj |-> newValue, endDate |-> newValue]])
    /\ UNCHANGED <<currentStep, isLoading, vehicles, allVehicles,
                   bookingError, savedBookings, timers, variant>>
    /\ UNCHANGED serverVars

\* Variant A, Continue (rendered on steps 0..4, never disabled): handleNext
\* validates the step it captured and, when that passes, schedules the
\* update that writes the captured step + 1.
handleNextA ==
    /\ variant = "A"
    /\ currentStep < LastStep - 1
    /\ LET newErrors == validateStep(currentStep, formState) IN
        /\ formState' = formReducer(formState,
                [type |-> "SET_ERRORS", payload |-> newErrors])
        /\ IF newErrors = {}
           THEN /\ Len(timers) < MaxTimers
                /\ bookingError' = ""
                /\ timers' = Append(timers, NavTimer(currentStep + 1))
           ELSE UNCHANGED <<bookingError, timers>>
    /\ UNCHANGED <<currentStep, isLoading, vehicles, allVehicles,
                   savedBookings, variant>>
    /\ UNCHANGED serverVars

\* Variant A, Back (rendered on steps 0..5, disabled on step 0): handlePrev
\* schedules the update that writes the captured step - 1.
handlePrevA ==
    /\ variant = "A"
    /\ currentStep < LastStep
    /\ currentStep # 0
    /\ Len(timers) < MaxTimers
    /\ timers' = Append(timers, NavTimer(currentStep - 1))
    /\ UNCHANGED <<formState, currentStep, isLoading, vehicles, allVehicles,
                   bookingError, savedBookings, variant>>
    /\ UNCHANGED serverVars

\* Variant A: the delayed step update of handleNext or handlePrev runs.
NavTimeout(i) ==
    /\ CanFire(i)
    /\ timers[i].kind = "nav"
    /\ currentStep' = timers[i].step
    /\ formState' = formReducer(formState, [type |-> "CLEAR_ERRORS"])
    /\ timers' = Remove(timers, i)
    /\ UNCHANGED <<isLoading, vehicles, allVehicles, bookingError,
                   savedBookings, variant>>
    /\ UNCHANGED serverVars

\* Variant B, Continue (steps 0..4, disabled while isLoading): handleNext
\* validates the step and, when that passes, increments the step at once.
handleNextB ==
    /\ variant = "B"
    /\ currentStep < LastStep - 1
    /\ ~isLoading
    /\ LET newErrors == validateStep(currentStep, formState) IN
        /\ formState' = formReducer(formState,
                [type |-> IF newErrors = {} THEN "CLEAR_ERRORS" ELSE "SET_ERRORS",
                 payload |-> newErrors])
        /\ IF newErrors = {}
           THEN /\ bookingError' = ""
                /\ currentStep' = currentStep + 1
           ELSE UNCHANGED <<bookingError, currentStep>>
    /\ UNCHANGED <<isLoading, vehicles, allVehicles, savedBookings, timers,
                   variant>>
    /\ UNCHANGED serverVars

\* Variant B, Back (steps 0..5, disabled on step 0).
handlePrevB ==
    /\ variant = "B"
    /\ currentStep < LastStep
    /\ currentStep # 0
    /\ currentStep' = currentStep - 1
    /\ formState' = formReducer(formState, [type |-> "CLEAR_ERRORS"])
    /\ UNCHANGED <<isLoading, vehicles, allVehicles, bookingError,
                   savedBookings, timers, variant>>
    /\ UNCHANGED serverVars

\* Variant A, Confirm (rendered on step 5, disabled while isLoading):
\* handleSubmit up to its await.
handleSubmitA ==
    /\ variant = "A"
    /\ currentStep = LastStep - 1
    /\ ~isLoading
    /\ LET newErrors == validateStep(4, formState) IN
        /\ formState' = formReducer(formState,
                [type |-> "SET_ERRORS", payload |-> newErrors])
        /\ IF newErrors = {}
           THEN /\ Len(timers) < MaxTimers
                /\ savedBookings + Cardinality(PendingSubmits) < MaxSaved
                /\ isLoading' = TRUE
                /\ timers' = Append(timers, SubmitTimer(currentStep))
           ELSE UNCHANGED <<isLoading, timers>>
    /\ UNCHANGED <<currentStep, vehicles, allVehicles, bookingError,
                   savedBookings, variant>>
    /\ UNCHANGED serverVars

\* Variant A: the await of handleSubmit is over and Math.random() > 0.1.
\* The booking is put before the first four entries of the history (an
\* entry's fields are not kept, only how many there are); the handleNext the closure
\* captured validates its step (5: nothing to check) and schedules the
\* update to step + 1; finally isLoading is cleared.
SubmitSucceedsA(i) ==
    /\ variant = "A"
    /\ CanFire(i)
    /\ timers[i].kind = "submit"
    /\ savedBookings' = 1 + (IF savedBookings < HistoryKept
                              THEN savedBookings ELSE HistoryKept)
    /\ LET newErrors == validateStep(timers[i].step, formState) IN
        /\ formState' = formReducer(formState,
                [type |-> "SET_ERRORS", payload |-> newErrors])
        /\ IF newErrors = {}
           THEN /\ bookingError' = ""
                /\ timers' = Append(Remove(timers, i),
                                    NavTimer(timers[i].step + 1))
           ELSE /\ bookingError' = bookingError
                /\ timers' = Remove(timers, i)
    /\ isLoading' = FALSE
    /\ UNCHANGED <<currentStep, vehicles, allVehicles, variant>>
    /\ UNCHANGED serverVars

\* Variant A: the await is over and Math.random() <= 0.1.
SubmitFailsA(i) ==
    /\ variant = "A"
    /\ CanFire(i)
    /\ timers[i].kind = "submit"
    /\ bookingError' = "conflict"
    /\ isLoading' = FALSE
    /\ timers' = Remove(timers, i)
    /\ UNCHANGED <<formState, currentStep, vehicles, allVehicles,
                   savedBookings, variant>>
    /\ UNCHANGED serverVars

\* Variant A, Review step: Try Again under the error message.
DismissError ==
    /\ variant = "A"
    /\ currentStep = LastStep - 1
    /\ bookingError # ""
    /\ bookingError' = ""
    /\ UNCHANGED <<formState, currentStep, isLoading, vehicles, allVehicles,
                   savedBookings, timers, variant>>
    /\ UNCHANGED serverVars

\* A right-hand button that is Confirm from the Dates step on.
handleSubmitBFromDates ==
    /\ variant = "B"
    /\ currentStep \in {LastStep - 2, LastStep - 1}
    /\ ~isLoading
    /\ LET newErrors == validateStep(4, formState) IN
        /\ formState' = formReducer(formState,
                [type |-> "SET_ERRORS", payload |-> newErrors])
        /\ IF newErrors = {}
           THEN /\ Len(timers) < MaxTimers
                /\ isLoading' = TRUE
                /\ bookingError' = ""
                /\ timers' = Append(timers, SubmitTimer(currentStep))
           ELSE UNCHANGED <<isLoading, bookingError, timers>>
    /\ UNCHANGED <<currentStep, vehicles, allVehicles, savedBookings, variant>>
    /\ UNCHANGED serverVars

\* Variant B, Confirm (step 5, disabled while isLoading): handleSubmit up to
\* its await.
handleSubmitB ==
    /\ variant = "B"
    /\ currentStep = LastStep - 1
    /\ ~isLoading
    /\ LET newErrors == validateStep(4, formState) IN
        /\ formState' = formReducer(formState,
                [type |-> "SET_ERRORS", payload |-> newErrors])
        /\ IF newErrors = {}
           THEN /\ Len(timers) < MaxTimers
                /\ isLoading' = TRUE
                /\ bookingError' = ""
                /\ timers' = Append(timers, SubmitTimer(currentStep))
           ELSE UNCHANGED <<isLoading, bookingError, timers>>
    /\ UNCHANGED <<currentStep, vehicles, allVehicles, savedBookings, variant>>
    /\ UNCHANGED serverVars

\* Variant B: the await is over and Math.random() > 0.1.  The handleNext the
\* closure captured validates its step (5: nothing to check) and increments
\* the step the wizard is on now; nothing is recorded.
SubmitSucceedsB(i) ==
    /\ variant = "B"
    /\ CanFire(i)
    /\ timers[i].kind = "submit"
    /\ ~Crashed
    /\ LET newErrors == validateStep(timers[i].step, formState) IN
        /\ formState' = formReducer(formState,
                [type |-> IF newErrors = {} THEN "CLEAR_ERRORS" ELSE "SET_ERRORS",
                 payload |-> newErrors])
        /\ IF newErrors = {}
           THEN /\ bookingError' = ""
                /\ currentStep' = currentStep + 1
           ELSE UNCHANGED <<bookingError, currentStep>>
    /\ isLoading' = FALSE
    /\ timers' = Remove(timers, i)
    /\ UNCHANGED <<vehicles, allVehicles, savedBookings, variant>>
    /\ UNCHANGED serverVars

\* Variant B: the await is over and Math.random() <= 0.1.
SubmitFailsB(i) ==
    /\ variant = "B"
    /\ CanFire(i)
    /\ timers[i].kind = "submit"
    /\ ~Crashed
    /\ bookingError' = "conflict"
    /\ isLoading' = FALSE
    /\ timers' = Remove(timers, i)
    /\ UNCHANGED <<formState, currentStep, vehicles, allVehicles,
                   savedBookings, variant>>
    /\ UNCHANGED serverVars

\* Success step: Book Another Ride.  vehicleType becomes '', so the load
\* effect runs and does nothing.
handleReset ==
    /\ variant \in {"A", "B"}
    /\ currentStep = LastStep
    /\ formState' = formReducer(formState,
            [type |-> "RESET_FORM", payload |-> initialState])
    /\ currentStep' = 0
    /\ bookingError' = ""
    /\ UNCHANGED <<isLoading, vehicles, allVehicles, savedBookings, timers,
                   variant>>
    /\ UNCHANGED serverVars

WizardNext ==
    \/ \E field \in {"firstName", "lastName"} : \E value \in NameInputs :
         EditName(field, value)
    \/ \E w \in {2, 4} : ChooseWheels(w)
    \/ \E type \in VEHICLE_TYPES_DATA : ChooseCategory(type)
    \/ \E id \in 1..Len(PricePerDay) : ChooseModel(id)
    \/ \E newValue \in Days : ChangeStartDateA(newValue)
    \/ \E val \in Days : ChangeStartDateB(val)
    \/ \E newValue \in Days : ChangeEndDate(newValue)
    \/ handleNextA
    \/ handlePrevA
    \/ handleNextB
    \/ handlePrevB
    \/ handleSubmitA
    \/ handleSubmitB
    \/ DismissError
    \/ handleReset
    \/ \E i \in 1..MaxTimers :
         \/ NavTimeout(i)
         \/ LoadTimeout(i)
         \/ SubmitSucceedsA(i)
         \/ SubmitFailsA(i)
         \/ SubmitSucceedsB(i)
         \/ SubmitFailsB(i)

WizardSpec == WizardInit /\ [][WizardNext]_vars

\* The date changes: the next dayjs() the pickers' minDate reads is a day on.
DayPasses ==
    /\ variant \in {"A", "B"}
    /\ today < MaxDay
    /\ today' = today + 1
    /\ UNCHANGED <<bookings, nextId, pc, req, existingBookings, res>>
    /\ UNCHANGED wizardVars

\* The way through the wizard up to Review, while the clock runs.
ClockNext ==
    \/ \E field \in {"firstName", "lastName"} : \E value \in NameInputs :
         EditName(field, value)
    \/ \E w \in {2, 4} : ChooseWheels(w)
    \/ \E type \in VEHICLE_TYPES_DATA : ChooseCategory(type)
    \/ \E id \in 1..Len(PricePerDay) : ChooseModel(id)
    \/ \E newValue \in Days : ChangeStartDateA(newValue)
    \/ \E val \in Days : ChangeStartDateB(val)
    \/ \E newValue \in Days : ChangeEndDate(newValue)
    \/ handleNextA
    \/ handleNextB
    \/ DayPasses
    \/ \E i \in 1..MaxTimers :
         \/ NavTimeout(i)
         \/ LoadTimeout(i)

ClockSpec == WizardInit /\ [][ClockNext]_vars

\* The last day of the calendar the quote is worked out on.
MaxQuoteDay == 13

\* The wizard on the Model step of a category of VEHICLES_DATA, the
\* category's vehicles loaded and offered, a name in both fields.
QuoteInit ==
    /\ bookings = {}
    /\ nextId = 1
    /\ pc = [c \in Clients |-> "idle"]
    /\ req = [c \in Clients |-> NoBody]
    /\ existingBookings = [c \in Clients |-> {}]
    /\ res = [c \in Clients |-> NoResponse]
    /\ today = 1
    /\ variant \in {"A", "B"}
    /\ \E t \in 1..Len(WheelsOfType) :
         /\ formState = [initialState EXCEPT !.firstName = <<"A", "l">>,
                                             !.lastName = <<"A", "l">>,
                                             !.wheels = WheelsOfType[t],
                                             !.vehicleType = t]
         /\ vehicles = {i \in 1..Len(PricePerDay) :
                            VehicleOfData(i).type_id = t}
         /\ allVehicles = SetToBag(vehicles)
    /\ currentStep = 3
    /\ isLoading = FALSE
    /\ bookingError = ""
    /\ savedBookings = 0
    /\ timers = <<>>

\* From the Model step to Review: a vehicle, the dates, Continue.
QuoteNext ==
    \/ \E id \in 1..Len(PricePerDay) : ChooseModel(id)
    \/ \E newValue \in 1..MaxQuoteDay : ChangeStartDateA(newValue)
    \/ \E val \in 1..MaxQuoteDay : ChangeStartDateB(val)
    \/ \E newValue \in 1..MaxQuoteDay : ChangeEndDate(newValue)
    \/ handleNextA
    \/ handleNextB
    \/ \E i \in 1..MaxTimers : NavTimeout(i)

QuoteSpec == QuoteInit /\ [][QuoteNext]_vars

-----------------------------------------------------------------------------
(***************************************************************************)
(* Vocabulary of the properties.                                           *)
(***************************************************************************)

\* Closed-interval overlap of [s1, e1] and [s2, e2].
Overlaps(s1, e1, s2, e2) == s1 <= e2 /\ s2 <= e1

\* A row, or a request body, whose dates form a range (start <= end).
RowIsRange(b) == b.start_date <= b.end_date

BodyIsRange(body) == body.startDate <= body.endDate

RowOverlapsBody(b, body) ==
    /\ b.vehicle_id = body.vehicleId
    /\ Overlaps(b.start_date, b.end_date, body.startDate, body.endDate)

\* The request body that asks for the vehicle and dates of row b.
BodyOfRow(b) ==
    [firstName |-> b.first_name, lastName |-> b.last_name,
     vehicleId |-> b.vehicle_id, startDate |-> b.start_date,
     endDate |-> b.end_date]

\* The step in which c's overlap query returns.
QueryReturns(c) == pc[c] = "findAll" /\ pc'[c] # "findAll"

\* The step in which c's request is answered.
Answered(c) == pc[c] # "done" /\ pc'[c] = "done"

-----------------------------------------------------------------------------
\* C1: after any interleaving of requests, no two persisted bookings of the
\* same vehicle have overlapping date ranges (s1 <= e2 and s2 <= e1).
NoTwoPersistedOverlap ==
    \A b1 \in bookings : \A b2 \in bookings :
        (b1 # b2 /\ b1.vehicle_id = b2.vehicle_id)
            => ~Overlaps(b1.start_date, b1.end_date, b2.start_date, b2.end_date)

\* C2: of two concurrent requests for the same vehicle with overlapping
\* ranges, exactly one is answered 201 and the other 409: never two
\* successes, never two failures.
ExactlyOneWinner ==
    \A c1 \in Clients : \A c2 \in Clients :
        ( /\ c1 # c2
          /\ pc[c1] = "done" /\ pc[c2] = "done"
          /\ ~RequiredFieldsMissing(req[c1]) /\ ~RequiredFieldsMissing(req[c2])
          /\ req[c1].vehicleId = req[c2].vehicleId
          /\ req[c1].vehicleId \in Vehicles
          /\ BodyIsRange(req[c1]) /\ BodyIsRange(req[c2])
          /\ Overlaps(req[c1].startDate, req[c1].endDate,
                      req[c2].startDate, req[c2].endDate) )
        => {res[c1].status, res[c2].status} = {201, 409}

\* C3: for an existing booking [s, e] with s <= e and a requested range
\* [S, E] with S <= E on the same vehicle, the conflict query returns the
\* booking if and only if s <= E and S <= e.
QuerySelectsExactlyOverlaps ==
    [][\A c \in Clients :
        (QueryReturns(c) /\ BodyIsRange(req[c]))
        => \A b \in bookings :
             (b.vehicle_id = req[c].vehicleId /\ RowIsRange(b))
             => ( (b \in existingBookings'[c])
                  <=> (b.start_date <= req[c].endDate
                       /\ req[c].startDate <= b.end_date) )]_vars

\* C3 witness: a request strictly inside an existing booking was answered 409
\* with that booking as the row found.
ContainedRequestFound ==
    \E c \in Clients : \E b \in existingBookings[c] :
        /\ res[c].status = 409
        /\ b.start_date < req[c].startDate
        /\ req[c].startDate <= req[c].endDate
        /\ req[c].endDate < b.end_date

\* C4: a request whose range touches an existing booking of its vehicle at a
\* boundary day (its start is the booking's end, or its end the booking's
\* start; at least one of the two has start <= end, as every range has) is
\* answered 409 and inserts nothing.
TouchingIsConflict ==
    [][\A c \in Clients :
        ( /\ QueryReturns(c)
          /\ \E b \in bookings :
                /\ b.vehicle_id = req[c].vehicleId
                /\ BodyIsRange(req[c]) \/ RowIsRange(b)
                /\ \/ req[c].startDate = b.end_date
                   \/ req[c].endDate = b.start_date )
        => ( /\ pc'[c] = "done"
             /\ res'[c] = [status |-> 409, booking |-> {}]
             /\ bookings' = bookings )]_vars

\* C4 witness: a request that starts on the day an existing booking ends, and
\* shares no other day with it, was answered 409.
TouchingRequestRefused ==
    \E c \in Clients : \E b \in existingBookings[c] :
        /\ res[c].status = 409
        /\ b.start_date < b.end_date
        /\ req[c].startDate = b.end_date
        /\ req[c].startDate < req[c].endDate
        /\ b \in bookings

\* C5: the conflict decision is symmetric: a request for range a is flagged
\* against an existing booking with range b iff a request for range b is
\* flagged against an existing booking with range a.
ConflictIsSymmetric ==
    \A c \in Clients : \A b \in bookings :
        ( /\ pc[c] # "idle"
          /\ ~RequiredFieldsMissing(req[c])
          /\ BodyIsRange(req[c])
          /\ RowIsRange(b)
          /\ b.vehicle_id = req[c].vehicleId )
        => ( (FindAllResult({b}, req[c]) # {})
             <=> (FindAllResult({NewBookingRow(0, req[c])}, BodyOfRow(b)) # {}) )

\* C5 witness: a request was flagged against a booking of another range that
\* contains days the request does not.
FlaggedAgainstOtherRange ==
    \E c \in Clients : \E b \in existingBookings[c] :
        /\ res[c].status = 409
        /\ BodyIsRange(req[c])
        /\ RowIsRange(b)
        /\ b.start_date < req[c].startDate
        /\ b.end_date < req[c].endDate

\* C6: a request whose startDate is not strictly before its endDate, or
\* whose startDate is in the past, is rejected with 400 and no booking is
\* persisted.
BadRangeRejected ==
    \A c \in Clients :
        ( /\ pc[c] = "done"
          /\ ~RequiredFieldsMissing(req[c])
          /\ ForeignKeyHolds(req[c])
          /\ \/ req[c].startDate >= req[c].endDate
             \/ req[c].startDate < today )
        => (res[c] = [status |-> 400, booking |-> {}])

\* C7: a request with any of firstName, lastName, vehicleId, startDate,
\* endDate missing is answered 400 at once and leaves the persisted bookings
\* unchanged; no query is run for it.
MissingFieldIs400 ==
    [][\A c \in Clients :
        ( /\ pc[c] = "idle" /\ pc'[c] # "idle"
          /\ \/ req'[c].firstName = ""
             \/ req'[c].lastName = ""
             \/ req'[c].vehicleId = 0
             \/ req'[c].startDate = 0
             \/ req'[c].endDate = 0 )
        => ( /\ pc'[c] = "done"
             /\ res'[c] = [status |-> 400, booking |-> {}]
             /\ bookings' = bookings )]_vars

\* C7 witness: a request with only its endDate missing was answered 400 while
\* the table held a booking.
MissingEndDateAnswered400 ==
    \E c \in Clients :
        /\ pc[c] = "done"
        /\ res[c].status = 400
        /\ req[c].firstName # "" /\ req[c].lastName # ""
        /\ req[c].vehicleId # 0 /\ req[c].startDate # 0
        /\ req[c].endDate = 0
        /\ bookings # {}

\* C8: when the requested range overlaps an existing booking of the same
\* vehicle, the request is answered 409 and the persisted bookings are what
\* they were (no row inserted, none modified).
OverlapIs409 ==
    [][\A c \in Clients :
        (QueryReturns(c) /\ \E b \in bookings : RowOverlapsBody(b, req[c]))
        => ( /\ pc'[c] = "done"
             /\ res'[c] = [status |-> 409, booking |-> {}]
             /\ bookings' = bookings )]_vars

\* C8 witness: a request overlapping a persisted booking was answered 409 and
\* the table holds that booking alone.
OverlappingRequestRefused ==
    \E c \in Clients : \E b \in bookings :
        /\ res[c].status = 409
        /\ RowOverlapsBody(b, req[c])
        /\ bookings = {b}

\* C9: a complete request with a range, for a vehicle of the table, that
\* overlaps no existing booking of its vehicle goes on to insert exactly one
\* booking carrying its firstName, lastName, vehicleId, startDate and endDate
\* under a fresh id and is answered 201 with it; every request ends with
\* either that row persisted and returned, or nothing persisted.
NonOverlappingIsCreated ==
    [][\A c \in Clients :
        /\ ( /\ QueryReturns(c)
             /\ BodyIsRange(req[c])
             /\ \A b \in bookings :
                   b.vehicle_id = req[c].vehicleId
                   => (RowIsRange(b) /\ ~RowOverlapsBody(b, req[c])) )
           => (pc'[c] = "create" /\ bookings' = bookings)
        /\ (pc[c] = "create" /\ pc'[c] # "create" /\ req[c].vehicleId \in Vehicles)
           => \E row \in bookings' \ bookings :
                /\ bookings' = bookings \cup {row}
                /\ \A b \in bookings : b.id # row.id
                /\ row.first_name = req[c].firstName
                /\ row.last_name = req[c].lastName
                /\ row.vehicle_id = req[c].vehicleId
                /\ row.start_date = req[c].startDate
                /\ row.end_date = req[c].endDate
                /\ pc'[c] = "done"
                /\ res'[c] = [status |-> 201, booking |-> {row}]
        /\ Answered(c)
           => \/ res'[c].status = 201 /\ bookings' \ bookings = res'[c].booking
                 /\ Cardinality(res'[c].booking) = 1
              \/ res'[c].status # 201 /\ res'[c].booking = {}
                 /\ bookings' = bookings]_vars

\* C9 witness: a request starting the day after an existing booking of its
\* vehicle ends was answered 201 with its row.
NextDayRequestCreated ==
    \E c \in Clients : \E b \in bookings : \E row \in res[c].booking :
        /\ res[c].status = 201
        /\ row \in bookings
        /\ b.id < row.id
        /\ b.vehicle_id = row.vehicle_id
        /\ RowIsRange(b)
        /\ row.start_date = b.end_date + 1
        /\ row.start_date <= row.end_date

\* C10: requests for different vehicles are independent: a 409 for vehicle v
\* is caused by a persisted booking of v only, the rows found are rows of v,
\* and no step of a request for v changes the bookings of another vehicle.
VehiclesAreIndependent ==
    [][\A c \in Clients :
        /\ QueryReturns(c)
           => /\ \A b \in existingBookings'[c] : b.vehicle_id = req[c].vehicleId
              /\ (res'[c].status = 409)
                 <=> (\E b \in bookings :
                        /\ b.vehicle_id = req[c].vehicleId
                        /\ b \in FindAllResult({b}, req[c]))
        /\ (pc[c] # "idle" /\ pc'[c] # pc[c])
           => {b \in bookings' : b.vehicle_id # req[c].vehicleId}
              = {b \in bookings : b.vehicle_id # req[c].vehicleId}]_vars

\* C10 witness: two vehicles are booked for the very same dates, the second
\* requested while the first booking was already persisted.
SameDatesOtherVehicleCreated ==
    \E c \in Clients : \E b \in bookings : \E row \in res[c].booking :
        /\ res[c].status = 201
        /\ b.id < row.id
        /\ b.vehicle_id # row.vehicle_id
        /\ b.start_date = row.start_date
        /\ b.end_date = row.end_date
        /\ existingBookings[c] = {}

\* C11: every persisted booking has start_date <= end_date.
PersistedRowsAreRanges ==
    \A b \in bookings : b.start_date <= b.end_date

-----------------------------------------------------------------------------
(***************************************************************************)
(* Vocabulary of the wizard's properties.                                  *)
(***************************************************************************)

\* This step starts a delayed or an immediate move from the current step to
\* the next one: variant A schedules the update, variant B makes it.
Advances ==
    \/ variant = "B" /\ currentStep' = currentStep + 1
    \/ /\ variant = "A"
       /\ Len(timers') = Len(timers) + 1
       /\ timers'[Len(timers')] = NavTimer(currentStep + 1)

\* This step starts a submit: one more continuation of handleSubmit waits.
SubmitStarts == Cardinality(PendingSubmits') > Cardinality(PendingSubmits)

\* This step applies the outcome of a submit.
SubmitCompletes == Cardinality(PendingSubmits') < Cardinality(PendingSubmits)

\* The draft without its errors.
Draft(fs) == [f \in (DOMAIN fs) \ {"errors"} |-> fs[f]]

\* C12: in both variants, whenever startDate >= endDate an advance from the
\* Dates step fails and a submit is refused, and the wizard is never on Review
\* with a draft whose start and end date are the same day.
DatesStrictlyIncreasing ==
    [][/\ (currentStep = 4 /\ formState.startDate >= formState.endDate)
            => ~Advances
       /\ formState.startDate >= formState.endDate => ~SubmitStarts
       /\ currentStep' = 5
            => ~(formState'.startDate # 0
                 /\ formState'.startDate = formState'.endDate)]_vars

\* C13: in every reachable state of either variant a selected vehicle belongs
\* to the selected category: a non-empty specificModel is the id of a vehicle
\* whose type_id is the draft's vehicleType.
SelectedModelOfSelectedCategory ==
    formState.specificModel # 0
        => \E v \in VEHICLES_DATA :
              /\ v.id = formState.specificModel
              /\ v.type_id = formState.vehicleType

\* C14: no double submit: at most one submit is pending at a time, and
\* isLoading is true as long as a submit is pending, also after a vehicle
\* load has completed in between.
NoDoubleSubmit ==
    /\ Cardinality(PendingSubmits) <= 1
    /\ PendingSubmits # {} => isLoading

\* C15: while a submit is pending nothing but its own completion takes
\* effect: Back, Continue and the field edits are disabled, so no other step
\* changes currentStep or a draft field.
NothingMovesWhileSubmitPending ==
    [][(PendingSubmits # {} /\ ~SubmitCompletes)
        => /\ currentStep' = currentStep
           /\ Draft(formState') = Draft(formState)]_vars

\* C16: for every interleaving, the completion of a submit finds the wizard
\* on Review and either fails, leaving it on Review with a non-empty
\* bookingError, or succeeds, recording the booking (variant A's history gets
\* one more entry; variant B keeps no history) and moving to Success (variant
\* A by scheduling the update to step 6).
SubmitOutcomeOnReview ==
    [][SubmitCompletes
        => /\ currentStep = 5
           /\ \/ /\ bookingError' # ""
                 /\ currentStep' = 5
                 /\ savedBookings' = savedBookings
              \/ /\ bookingError' = ""
                 /\ variant = "A" => /\ savedBookings' = savedBookings + 1
                                     /\ currentStep' = 5
                                     /\ Len(timers') > 0
                                     /\ timers'[Len(timers')] = NavTimer(6)
                 /\ variant = "B" => currentStep' = 6]_vars

\* C17: Success is terminal: from step 6 the only step that changes
\* currentStep or the draft is reset, which gives step 0 and the empty draft.
SuccessIsTerminal ==
    [][currentStep = 6
        => \/ /\ currentStep' = 6
              /\ Draft(formState') = Draft(formState)
           \/ /\ currentStep' = 0
              /\ formState' = initialState
              /\ bookingError' = ""]_vars

\* C18: step increases only by an advance whose validator, that of the step
\* being left, is satisfied by the draft at that moment, and then by exactly
\* 1 and with errors empty; a step that sets errors to a non-empty value (a
\* failed validation) leaves currentStep unchanged.
AdvanceValidatesCurrentStep ==
    [][/\ currentStep' > currentStep
            => /\ currentStep' = currentStep + 1
               /\ validateStep(currentStep, formState) = {}
               /\ formState'.errors = {}
       /\ (formState'.errors # {} /\ formState'.errors # formState.errors)
            => currentStep' = currentStep]_vars

\* C19: no forward skip: every increase of currentStep is by exactly 1.
NoForwardSkip ==
    [][currentStep' > currentStep => currentStep' = currentStep + 1]_vars

\* C20: currentStep is always one of the seven positions 0..6.
StepInRange == currentStep \in 0..6

\* The names and the dates of a draft.
NamesAndDates(fs) ==
    <<fs.firstName, fs.lastName, fs.startDate, fs.endDate,
      fs.startDateObj, fs.endDateObj>>

\* The category with this id is of the draft's wheel class.
OfWheelClass(vehicleType, fs) ==
    \E t \in VEHICLE_TYPES_DATA : t.id = vehicleType /\ t.wheels = fs.wheels

\* A name as the Details step wants it: not empty and two characters or more.
NameGiven(name) == name # <<>> /\ Len(name) >= 2

\* This step is a click on Continue.
ContinueClicked == handleNextA \/ handleNextB

\* This step is a click on Confirm.
ConfirmClicked == handleSubmitA \/ handleSubmitB

\* This step is a click on Back.
BackClicked == handlePrevA \/ handlePrevB

\* This step is one of the dispatches of a step's cards, inputs and pickers.
FieldUpdate ==
    \/ \E field \in {"firstName", "lastName"} : \E value \in NameInputs :
         EditName(field, value)
    \/ \E w \in {2, 4} : ChooseWheels(w)
    \/ \E type \in VEHICLE_TYPES_DATA : ChooseCategory(type)
    \/ \E id \in 1..Len(PricePerDay) : ChooseModel(id)
    \/ \E newValue \in Days : ChangeStartDateA(newValue)
    \/ \E val \in Days : ChangeStartDateB(val)
    \/ \E newValue \in Days : ChangeEndDate(newValue)

\* C21: choosing a wheel class, from any draft, gives a draft with the new
\* wheels value and with vehicleType and specificModel both unset; the names
\* and the dates are unchanged.
WheelChoiceResetsSelection ==
    [][\A w \in {2, 4} :
         ChooseWheels(w)
            => /\ formState'.wheels = w
               /\ formState'.vehicleType = 0
               /\ formState'.specificModel = 0
               /\ NamesAndDates(formState') = NamesAndDates(formState)]_vars

\* C21 happens: the wizard is back on the Wheels step with names and dates
\* given (so a 4-wheel category and a model had been chosen) and 2 wheels
\* have been chosen: category and model are unset.
WheelClassRechosen ==
    /\ currentStep = 1
    /\ formState.wheels = 2
    /\ formState.vehicleType = 0
    /\ formState.specificModel = 0
    /\ NameGiven(formState.firstName)
    /\ formState.startDate # 0
    /\ formState.endDate # 0

\* C22: choosing a category sets vehicleType to it and unsets specificModel;
\* wheels, the names and the dates are unchanged.
CategoryChoiceResetsModel ==
    [][\A type \in VEHICLE_TYPES_DATA :
         ChooseCategory(type)
            => /\ formState'.vehicleType = type.id
               /\ formState'.specificModel = 0
               /\ formState'.wheels = formState.wheels
               /\ NamesAndDates(formState') = NamesAndDates(formState)]_vars

\* C22 happens: back on the Category step with the dates given, a category
\* has just been chosen (its load waits) and no model is selected.
CategoryRechosen ==
    /\ currentStep = 2
    /\ formState.vehicleType # 0
    /\ formState.specificModel = 0
    /\ formState.startDate # 0
    /\ \E i \in 1..Len(timers) :
          timers[i] = LoadTimer(formState.vehicleType)

\* C23: a move from the Category step to the next happens only with a
\* vehicleType that is set and of the draft's wheel class, and in every state
\* a non-empty vehicleType is of the draft's wheel class.
CategoryValidatorKeepsWheelClass ==
    [][/\ (currentStep = 2 /\ Advances)
            => /\ formState.vehicleType # 0
               /\ OfWheelClass(formState.vehicleType, formState)
       /\ formState'.vehicleType # 0
            => OfWheelClass(formState'.vehicleType, formState')]_vars

\* C24: a move from the Details step to the next happens if and only if
\* firstName and lastName are both non-empty and of length >= 2; a Continue
\* with an offending name leaves the step at 0 and puts an entry for each
\* offending name into errors.
DetailsValidatorDecides ==
    [][currentStep = 0
        => /\ Advances => /\ NameGiven(formState.firstName)
                          /\ NameGiven(formState.lastName)
           /\ (/\ ContinueClicked
               /\ NameGiven(formState.firstName)
               /\ NameGiven(formState.lastName)) => Advances
           /\ (ContinueClicked /\ ~NameGiven(formState.firstName))
                => currentStep' = 0 /\ "firstName" \in formState'.errors
           /\ (ContinueClicked /\ ~NameGiven(formState.lastName))
                => currentStep' = 0 /\ "lastName" \in formState'.errors]_vars

\* C25: a move from the Wheels step to the next happens only with wheels 2
\* or 4, a move from the Model step only with a specificModel, and wheels is
\* never anything but unset, 2 or 4.
SelectionStepsNeedSelection ==
    [][/\ (currentStep = 1 /\ Advances) => formState.wheels \in {2, 4}
       /\ (currentStep = 3 /\ Advances) => formState.specificModel # 0
       /\ formState'.wheels \in {0, 2, 4}]_vars

\* C26: a move from the Dates step to the next fails whenever the draft's
\* startDate is strictly before the current date at that moment.
PastStartDateRejected ==
    [][(/\ currentStep = 4
        /\ formState.startDate # 0
        /\ formState.startDate < today) => ~Advances]_vars

\* C27: Back is only taken on a step > 0 and changes no draft field, and
\* every decrease of currentStep other than reset's is by exactly 1, clears
\* errors and changes no draft field.
RetreatDecrementsByOne ==
    [][/\ BackClicked
            => currentStep > 0 /\ Draft(formState') = Draft(formState)
       /\ (currentStep' < currentStep /\ ~handleReset)
            => /\ currentStep' = currentStep - 1
               /\ formState'.errors = {}
               /\ Draft(formState') = Draft(formState)]_vars

\* C28: field updates never move the wizard: every dispatch of a name edit,
\* a wheel, category, model or date selection leaves currentStep unchanged,
\* and so does every step other than reset that changes a draft field.
FieldUpdatesKeepStep ==
    [][/\ FieldUpdate => currentStep' = currentStep
       /\ (Draft(formState') # Draft(formState) /\ ~handleReset)
            => currentStep' = currentStep]_vars

\* C28 happens: a model has been chosen and the wizard is on the Model step.
ModelChosenOnModelStep ==
    /\ currentStep = 3
    /\ formState.specificModel # 0
    /\ formState.specificModel \in vehicles

ResetIsFinal ==
    [][handleReset
        => /\ currentStep' = 0
           /\ formState' = initialState
           /\ bookingError' = ""
           /\ \A i \in 1..Len(timers') :
                \/ timers'[i].kind = "load"
                \/ timers'[i] = NavTimer(0)]_vars

\* C32: whenever the selected vehicle is found in the cache and the start
\* date is before the end date, the quote's days are (end - start) + 1 and
\* its total is days * price_per_day of that vehicle.
QuoteIsInclusiveDaysTimesPrice ==
    (/\ variant \in {"A", "B"}
     /\ BagIn(formState.specificModel, allVehicles)
     /\ formState.startDateObj # 0
     /\ formState.startDateObj < formState.endDateObj)
    => /\ rentalDays(formState)
            = (formState.endDateObj - formState.startDateObj) + 1
       /\ totalPrice(formState)
            = ((formState.endDateObj - formState.startDateObj) + 1)
              * PricePerDay[formState.specificModel]

\* C32 witness: Review of a draft from day 1 to day 3, which is 3 days.
ThreeDayQuoteOnReview ==
    /\ currentStep = 5
    /\ BagIn(formState.specificModel, allVehicles)
    /\ formState.startDateObj = 1
    /\ formState.endDateObj = 3
    /\ rentalDays(formState) = 3

\* The draft of the scenario on Review: a four-wheeler, Sedan (category 3),
\* vehicle 7, from the 10th to the 13th.
ScenarioOnReview ==
    /\ currentStep = 5
    /\ NameGiven(formState.firstName)
    /\ NameGiven(formState.lastName)
    /\ formState.wheels = 4
    /\ formState.vehicleType = 3
    /\ formState.specificModel = 7
    /\ PricePerDay[7] = 2000
    /\ formState.startDateObj = 10
    /\ formState.endDateObj = 13

\* C33 as stated: Review of the scenario's draft shows 3 days and 6000.
ScenarioShowsThreeDays ==
    ScenarioOnReview
    => rentalDays(formState) = 3 /\ totalPrice(formState) = 6000

\* C33: Review of the scenario's draft shows 4 days, the 10th and the 13th
\* both counted, and 8000.
ScenarioShowsFourDays ==
    ScenarioOnReview
    => rentalDays(formState) = 4 /\ totalPrice(formState) = 8000

\* C33 witness: the scenario's draft is on Review and its vehicle is priced.
ScenarioReachesReview ==
    ScenarioOnReview /\ getVehicleInfo(7) # {}

\* C34: in every state of the wizard where a date is unset or the end date
\* is not after the start date, the quote is 0 days and a total of 0.
ZeroQuoteWithoutRange ==
    (/\ variant \in {"A", "B"}
     /\ \/ formState.startDateObj = 0
        \/ formState.endDateObj = 0
        \/ formState.endDateObj <= formState.startDateObj)
    => rentalDays(formState) = 0 /\ totalPrice(formState) = 0

\* C34 witness: a vehicle is chosen and both dates are set, the end date on
\* the start date.
EndDateOnStartDate ==
    /\ BagIn(formState.specificModel, allVehicles)
    /\ formState.startDateObj # 0
    /\ formState.endDateObj = formState.startDateObj

\* C35: a submit that fails leaves the wizard where the submit can be
\* invoked again: on Review (step 5), with isLoading false, so that Confirm is
\* rendered and enabled.
FailedSubmitLeavesRetryOpen ==
    [][(\E i \in 1..MaxTimers : SubmitFailsA(i) \/ SubmitFailsB(i))
        => /\ ~isLoading'
           /\ currentStep' = 5]_vars

\* C36: in every state with the wizard on Review or Success (step 5 or
\* more) the draft is complete: both names, the wheel class, the category,
\* the model and both dates are set.
DraftCompleteAtEnd ==
    currentStep >= 5
    => /\ formState.firstName # <<>>
       /\ formState.lastName # <<>>
       /\ formState.wheels # 0
       /\ formState.vehicleType # 0
       /\ formState.specificModel # 0
       /\ formState.startDate # 0
       /\ formState.endDate # 0

\* The load callbacks that have not run yet.
PendingLoads == {i \in 1..Len(timers) : timers[i].kind = "load"}

\* C37: the loads converge to the category of the draft: whenever the last
\* thing to set vehicleType was a category selection (vehicleType is not
\* '', which a wheel card and reset make it) and every load that was
\* scheduled has run, the offered list is the vehicles of that category; and
\* the step on which the last pending load runs leaves isLoading false.
LoadsConvergeToCategory ==
    [][/\ (PendingLoads' = {} /\ formState'.vehicleType # 0)
            => vehicles' = filteredVehicles(formState'.vehicleType)
       /\ (PendingLoads # {} /\ PendingLoads' = {}) => ~isLoading']_vars

\* C37 witness: both categories have been loaded, the second one last, and
\* its vehicles are the ones offered.
SecondCategoryLoaded ==
    /\ PendingLoads = {}
    /\ formState.vehicleType = 2
    /\ vehicles = filteredVehicles(2)
    /\ BagToSet(allVehicles) = filteredVehicles(1) \cup filteredVehicles(2)
    /\ filteredVehicles(1) # filteredVehicles(2)
    /\ ~isLoading

\* C38: the selected vehicle can always be priced: in every state a
\* non-empty specificModel is the id of exactly one entry of the cache and
\* getVehicleInfo finds it, no id has two entries, and no step takes an
\* entry out of the cache, reset included.
SelectedVehicleIsCachedOnce ==
    [][/\ formState'.specificModel # 0
            => /\ CopiesIn(formState'.specificModel, allVehicles') = 1
               /\ getVehicleInfo(formState.specificModel)' # {}
       /\ \A id \in BagToSet(allVehicles') : CopiesIn(id, allVehicles') = 1
       /\ \A id \in BagToSet(allVehicles) :
            CopiesIn(id, allVehicles') >= CopiesIn(id, allVehicles)]_vars

\* C38 witness: a booking has been made and reset, both categories are in
\* the cache, and a vehicle is selected again on the Dates step.
VehicleSelectedAfterReset ==
    /\ variant = "A"
    /\ savedBookings = 1
    /\ currentStep = 4
    /\ formState.specificModel # 0
    /\ BagToSet(allVehicles) = filteredVehicles(1) \cup filteredVehicles(2)
    /\ getVehicleInfo(formState.specificModel) # {}

=============================================================================
